---- MODULE Spec2Model ----
(***************************************************************************)
(* Model of the OCISecret operator (mariusbertram/oci-k8s-resource-sync):  *)
(* the Reconcile pass of OCISecretReconciler, the orasclient package       *)
(* (CreateClient, GetDigest, GetFiles, GetFilesContentBinary) and          *)
(* utils.FilterMapInPlace.                                                 *)
(*                                                                         *)
(* One OCISecret identity is reconciled.  The API server holds the         *)
(* OCISecret, the pull secret and the target Secret; the registry holds    *)
(* one tag that points at one of several artifact versions.  The other     *)
(* users of the cluster and of the registry act between any two API calls  *)
(* of a pass.                                                              *)
(***************************************************************************)
EXTENDS Integers, Sequences, FiniteSets, TLC

VARIABLES
    ocisecret,      \* the OCISecret resource in the API server
    pullSecret,     \* the Secret named by Spec.ArtefactPullSecret
    secret,         \* the Secret named by Spec.TargetSecret
    bystander,      \* a Secret of another name, target of another OCISecret
    remoteVer,      \* the artifact version the tag points at in the registry
    pc,             \* position of the reconcile pass
    OCIsecret,      \* Reconcile: the object read at line 84
    secretData,     \* Reconcile: line 97
    currentDigest,  \* Reconcile: line 138
    TargetSecret,   \* Reconcile: the outer TargetSecret of line 141
    content,        \* Reconcile: line 204, the Filemap GetFiles returned
    result,         \* what Reconcile returned: (ctrl.Result, error)
    tmpdir,         \* GetFiles: the temporary directory exists
    obs,            \* what the API calls of this pass returned
    calls,          \* how often this pass called each collaborator
    writes,         \* the objects this pass wrote to the target Secret
    cmp,            \* the operands of the comparison at line 200
    panicAt,        \* where the pass panicked
    disturbed,      \* what other users changed since the pass began
    prevOk,         \* the pass before this one returned nil, undisturbed
    ctxDone,        \* the ctx passed to Reconcile is cancelled or past its deadline
    m,              \* FilterMapInPlace: the map argument
    m0,             \* FilterMapInPlace: the map as it was passed
    allowedKeys,    \* FilterMapInPlace: the slice argument
    fpc             \* FilterMapInPlace: position of the call

storeVars == <<ocisecret, pullSecret, secret, bystander, remoteVer>>
passVars  == <<pc, OCIsecret, secretData, currentDigest, TargetSecret, content,
               result, tmpdir, obs, calls, writes, cmp, panicAt>>
histVars  == <<disturbed, prevOk, ctxDone>>
fvars     == <<m, m0, allowedKeys, fpc>>
vars      == <<storeVars, passVars, histVars, fvars>>

-----------------------------------------------------------------------------
(* Bounds *)

\* longest Spec.Sync.Files list
MaxLen == 2
\* number of artifact versions the tag can point at
MaxVer == 2

-----------------------------------------------------------------------------
(* Values *)

RECURSIVE SeqsUpTo(_, _)
SeqsUpTo(S, n) ==
    IF n = 0 THEN {<<>>}
    ELSE LET shorter == SeqsUpTo(S, n - 1)
         IN  shorter \cup {Append(s, x) : s \in {t \in shorter : Len(t) = n - 1}, x \in S}

Range(s) == {s[i] : i \in DOMAIN s}

\* file names: "a" and "b" occur in artifacts, "x" in none
FileNames == {"a", "b", "x"}
\* the names a user writes into Spec.Sync.Files
ListedNames == {"a", "x"}
AllowLists == SeqsUpTo(ListedNames, MaxLen)

Versions == 1..MaxVer
\* the files of artifact version v: odd versions hold a and b, even ones a
ArtifactFiles(v) == IF v % 2 = 1 THEN {"a", "b"} ELSE {"a"}
\* the bytes of a file are identified by the version they come from;
\* 0 stands for bytes that come from no artifact
ArtifactContent(v) == [f \in ArtifactFiles(v) |-> v]

EmptyMap == [k \in {} |-> 0]

\* manifestDescriptor.Digest.String(): "<algorithm>:<hex>"
Digest(v) == "sha256:" \o ToString(v)
Digests == {Digest(v) : v \in Versions}

RevisionPlaceholder == "00000"
RequeueSeconds == 60

ThisOCISecret == "ocisecret-1"
TargetName == "target-1"
BystanderName == "target-2"
GoodRegistry == "registry.example/repo"
BadRegistry == "registry example"
DockerConfigKey == ".dockerconfigjson"

NoSecret ==
    [exists |-> FALSE, Data |-> EmptyMap, annNil |-> TRUE, rev |-> "", owners |-> {}]

NoPullSecret == [exists |-> FALSE, Data |-> EmptyMap]
PullSecrets ==
    { NoPullSecret,
      [exists |-> TRUE, Data |-> [k \in {"other"} |-> "good"]],
      [exists |-> TRUE, Data |-> [k \in {DockerConfigKey} |-> ""]],
      [exists |-> TRUE, Data |-> [k \in {DockerConfigKey} |-> "good"]],
      [exists |-> TRUE, Data |-> [k \in {DockerConfigKey} |-> "bad"]] }

NoOCISecret ==
    [exists |-> FALSE, Name |-> "", Files |-> <<>>, PullName |-> "",
     PullNamespace |-> "", ArtefactRegistry |-> "", Target |-> ""]

NoContent == [Digest |-> "", Files |-> EmptyMap, readErr |-> FALSE, ver |-> 0]
NoResult == [RequeueAfter |-> 0, err |-> "none"]
NoObs == [specGet |-> "none", pullGet |-> "none", targetGet |-> "none",
          create |-> "none", refresh |-> "none", update |-> "none"]
NoCalls == [pullGet |-> 0, digest |-> 0, files |-> 0, targetGet |-> 0,
            create |-> 0, update |-> 0]
NoCmp == [reached |-> FALSE, stored |-> "", current |-> "", lenData |-> 0,
          lenFiles |-> 0]

\* the Secret another OCISecret keeps under its own target name
OtherSecret ==
    [exists |-> TRUE, Data |-> [k \in {"b"} |-> 0], annNil |-> FALSE,
     rev |-> Digest(1), owners |-> {"ocisecret-2"}]

\* what other users of the cluster put into the target Secret
ExternalSecrets ==
    { [exists |-> TRUE, Data |-> [k \in {"x"} |-> 0], annNil |-> TRUE,
       rev |-> "", owners |-> {}],
      [exists |-> TRUE, Data |-> [k \in {"a"} |-> 0], annNil |-> FALSE,
       rev |-> Digest(1), owners |-> {}] }

-----------------------------------------------------------------------------
(* utils.FilterMapInPlace *)

\* the set built from allowedKeys, then every key outside it deleted
FilterMapInPlace(fm, keys) ==
    LET allowedSet == Range(keys)
    IN  [k \in {key \in DOMAIN fm : key \in allowedSet} |-> fm[k]]

-----------------------------------------------------------------------------
(* orasclient *)

\* CreateClient panics on an address NewRepository rejects and on credential
\* bytes NewMemoryStoreFromDockerConfig rejects; empty bytes are not parsed
CreateClientPanics(registry, creds) ==
    \/ registry # GoodRegistry
    \/ (creds # "" /\ creds # "good")

\* GetFiles' return value: the digest of the copied manifest with the map
\* GetFilesContentBinary returned, which is nil when reading failed
Filemap(v, readFails) ==
    [Digest  |-> Digest(v),
     Files   |-> IF readFails THEN EmptyMap ELSE ArtifactContent(v),
     readErr |-> readFails,
     ver     |-> v]

-----------------------------------------------------------------------------
(* Reconcile: the pure parts *)

\* faulty variant: the error of an early return is swallowed
EarlyResult_Swallowed(err) == [RequeueAfter |-> 0, err |-> "nil"]

\* faulty variant: an early return always reports an error
EarlyResult_AlwaysError(err) ==
    [RequeueAfter |-> 0, err |-> IF err = "nil" THEN "NotFound" ELSE err]

\* ctrl.Result{}, err
EarlyResult(err) == [RequeueAfter |-> 0, err |-> err]

\* faulty variant: the final return forgets the delay
RequeueResult_NoDelay == [RequeueAfter |-> 0, err |-> "nil"]

\* ctrl.Result{RequeueAfter: 60s}, nil
RequeueResult == [RequeueAfter |-> RequeueSeconds, err |-> "nil"]

\* line 100: no pull secret is looked up when either part of the reference is empty
NoPullSecretSpecified(spec) == spec.PullName = "" \/ spec.PullNamespace = ""

\* lines 123-127: the value under .dockerconfigjson, "" when the key is missing
DockerConfigOf(data) ==
    IF DockerConfigKey \in DOMAIN data THEN data[DockerConfigKey] ELSE ""

\* lines 154-173: the Secret that is created when the target is missing
NewTargetSecret(spec) ==
    [exists |-> TRUE, Data |-> EmptyMap, annNil |-> FALSE,
     rev |-> RevisionPlaceholder, owners |-> {spec.Name}]

\* faulty variant: the annotation is not compared
NeedsUpdate_CountOnly(rev, digest, lenData, lenFiles) == lenData # lenFiles

\* line 200
\* faulty variant: every pass syncs
NeedsUpdate_Always(rev, digest, lenData, lenFiles) == TRUE

NeedsUpdate(rev, digest, lenData, lenFiles) ==
    rev # digest \/ lenData # lenFiles

\* lines 207-210: the filter runs only for a non-empty list
FilteredFiles(files, list) ==
    IF Len(list) > 0 THEN FilterMapInPlace(files, list) ELSE files

\* faulty variant: the fetched files are merged into the old data
UpdatedSecret_Merged(target, c, list) ==
    LET new == FilteredFiles(c.Files, list)
    IN  [target EXCEPT
            !.Data = [k \in DOMAIN target.Data \cup DOMAIN new |->
                         IF k \in DOMAIN new THEN new[k] ELSE target.Data[k]],
            !.rev = c.Digest]

\* lines 213-215: the object handed to r.Update
\* faulty variant: the second Get is left out and the outer variable is used as
\* the first read or the creation left it
Reread_Skipped(store, outer) == outer

\* line 191: the outer TargetSecret is filled from the store
Reread(store, outer) == store

\* faulty variant: data and revision are set on the object the store holds now,
\* not on the one this pass read
UpdatedSecret_OntoStore(target, c, list) ==
    [secret EXCEPT !.Data = FilteredFiles(c.Files, list),
                   !.rev = c.Digest]

\* faulty variant: the data are replaced, the revision annotation is left as read
UpdatedSecret_KeepRev(target, c, list) ==
    [target EXCEPT !.Data = FilteredFiles(c.Files, list)]

UpdatedSecret(target, c, list) ==
    [target EXCEPT !.Data = FilteredFiles(c.Files, list), !.rev = c.Digest]

-----------------------------------------------------------------------------
(* Initial states *)

\* the pull-secret references a user can write, with the Secret they find
PullSetups ==
    {<<"", "", NoPullSecret>>, <<"pull", "", NoPullSecret>>, <<"", "ns", NoPullSecret>>}
    \cup {<<"pull", "ns", ps>> : ps \in PullSecrets}

Init ==
    /\ \E list \in AllowLists, setup \in PullSetups,
          registry \in {GoodRegistry, BadRegistry} :
          /\ ocisecret = [exists |-> TRUE, Name |-> ThisOCISecret, Files |-> list,
                          PullName |-> setup[1], PullNamespace |-> setup[2],
                          ArtefactRegistry |-> registry, Target |-> TargetName]
          /\ pullSecret = setup[3]
    /\ secret \in {NoSecret} \cup ExternalSecrets
    /\ bystander = OtherSecret
    /\ remoteVer \in Versions
    /\ pc = "idle"
    /\ OCIsecret = NoOCISecret
    /\ secretData = ""
    /\ currentDigest = ""
    /\ TargetSecret = NoSecret
    /\ content = NoContent
    /\ result = NoResult
    /\ tmpdir = FALSE
    /\ obs = NoObs
    /\ calls = NoCalls
    /\ writes = <<>>
    /\ cmp = NoCmp
    /\ panicAt = "none"
    /\ disturbed = {}
    /\ prevOk = FALSE
    /\ ctxDone = FALSE
    /\ m = EmptyMap
    /\ m0 = EmptyMap
    /\ allowedKeys = <<>>
    /\ fpc = "off"

-----------------------------------------------------------------------------
(* Reconcile, one action per call that leaves the process *)

\* nobody but the pass acted since the pass began
quiet == disturbed = {}

\* r.Get, r.Create and r.Update are given ctx: each may fail, and fails once
\* ctx is done
ApiFailures == IF ctxDone THEN {TRUE} ELSE BOOLEAN

\* faulty variant: the request names the Secret of the other OCISecret
TargetSecretReq_Other(spec) == BystanderName

\* lines 142-147: the name under which the target Secret is read and written
TargetSecretReq(spec) == spec.Target

\* r.Get of a Secret by name
Stored(name) == IF name = TargetName THEN secret ELSE bystander

\* r.Create and r.Update of a Secret: the object goes under its name, no
\* other object is touched
Put(name, obj) ==
    IF name = TargetName
    THEN secret' = obj /\ UNCHANGED bystander
    ELSE bystander' = obj /\ UNCHANGED secret

\* return from Reconcile
Return(r) ==
    /\ result' = r
    /\ pc' = "done"

\* a panic unwinds Reconcile
Panic(where) ==
    /\ panicAt' = where
    /\ pc' = "panicked"

\* lines 82-94: the pass begins and reads the OCISecret
GetOCISecret ==
    /\ pc = "idle"
    /\ \E apiFails \in ApiFailures :
          IF apiFails
          THEN /\ obs' = [NoObs EXCEPT !.specGet = "ApiError"]
               /\ OCIsecret' = NoOCISecret
               /\ Return(EarlyResult("ApiError"))
          ELSE IF ~ocisecret.exists
          THEN /\ obs' = [NoObs EXCEPT !.specGet = "NotFound"]
               /\ OCIsecret' = NoOCISecret
               /\ Return(EarlyResult("nil"))
          ELSE /\ obs' = [NoObs EXCEPT !.specGet = "ok"]
               /\ OCIsecret' = ocisecret
               /\ result' = NoResult
               /\ pc' = "pull"
    /\ UNCHANGED <<storeVars, secretData, currentDigest, TargetSecret, content,
                   tmpdir, calls, writes, cmp, panicAt, histVars, fvars>>

\* lines 96-134: the pull secret
GetPullSecret ==
    /\ pc = "pull"
    /\ IF NoPullSecretSpecified(OCIsecret)
       THEN /\ pc' = "digest"
            /\ UNCHANGED <<secretData, result, obs, calls>>
       ELSE /\ calls' = [calls EXCEPT !.pullGet = @ + 1]
            /\ \E apiFails \in ApiFailures :
                  IF apiFails
                  THEN /\ obs' = [obs EXCEPT !.pullGet = "ApiError"]
                       /\ Return(EarlyResult("ApiError"))
                       /\ UNCHANGED secretData
                  ELSE IF ~pullSecret.exists
                  THEN /\ obs' = [obs EXCEPT !.pullGet = "NotFound"]
                       /\ Return(EarlyResult("NotFound"))
                       /\ UNCHANGED secretData
                  ELSE /\ obs' = [obs EXCEPT !.pullGet = "ok"]
                       /\ secretData' = DockerConfigOf(pullSecret.Data)
                       /\ IF secretData' = ""
                          THEN Return(EarlyResult("nil"))
                          ELSE pc' = "digest" /\ UNCHANGED result
    /\ UNCHANGED <<storeVars, OCIsecret, currentDigest, TargetSecret, content,
                   tmpdir, writes, cmp, panicAt, histVars, fvars>>

\* line 138 with orasclient.GetDigest, lines 82-97
GetDigest ==
    /\ pc = "digest"
    /\ calls' = [calls EXCEPT !.digest = @ + 1]
    /\ \E fetchFails \in BOOLEAN :
          IF CreateClientPanics(OCIsecret.ArtefactRegistry, secretData)
          THEN Panic("CreateClient") /\ UNCHANGED currentDigest
          ELSE IF fetchFails
          THEN Panic("GetDigest") /\ UNCHANGED currentDigest
          ELSE /\ currentDigest' = Digest(remoteVer)
               /\ pc' = "target"
               /\ UNCHANGED panicAt
    /\ UNCHANGED <<storeVars, OCIsecret, secretData, TargetSecret, content, result,
                   tmpdir, obs, writes, cmp, histVars, fvars>>

\* lines 140-151 and 183-187: the first read of the target Secret
GetTargetSecret ==
    /\ pc = "target"
    /\ calls' = [calls EXCEPT !.targetGet = @ + 1]
    /\ \E apiFails \in ApiFailures :
          IF apiFails
          THEN /\ obs' = [obs EXCEPT !.targetGet = "ApiError"]
               /\ Return(EarlyResult("ApiError"))
               /\ UNCHANGED TargetSecret
          ELSE IF ~Stored(TargetSecretReq(OCIsecret)).exists
          THEN /\ obs' = [obs EXCEPT !.targetGet = "NotFound"]
               /\ pc' = "create"
               /\ UNCHANGED <<TargetSecret, result>>
          ELSE /\ obs' = [obs EXCEPT !.targetGet = "ok"]
               /\ TargetSecret' = Stored(TargetSecretReq(OCIsecret))
               /\ pc' = "reget"
               /\ UNCHANGED result
    /\ UNCHANGED <<storeVars, OCIsecret, secretData, currentDigest, content,
                   tmpdir, writes, cmp, panicAt, histVars, fvars>>

\* lines 152-181: the Secret is created; a failure is logged and the pass goes on.
\* The object built here is the inner TargetSecret, the outer one stays empty.
CreateTargetSecret ==
    /\ pc = "create"
    /\ calls' = [calls EXCEPT !.create = @ + 1]
    /\ \E apiFails \in ApiFailures :
          IF apiFails \/ Stored(TargetSecretReq(OCIsecret)).exists
          THEN /\ obs' = [obs EXCEPT !.create = "Error"]
               /\ UNCHANGED <<secret, bystander, writes>>
          ELSE /\ obs' = [obs EXCEPT !.create = "ok"]
               /\ Put(TargetSecretReq(OCIsecret), NewTargetSecret(OCIsecret))
               /\ writes' = Append(writes, NewTargetSecret(OCIsecret))
    /\ pc' = "reget"
    /\ UNCHANGED <<ocisecret, pullSecret, remoteVer, OCIsecret, secretData,
                   currentDigest, TargetSecret, content, result, tmpdir, cmp,
                   panicAt, histVars, fvars>>

\* lines 189-201 and 227-229: the target is read again and compared
RefreshTargetSecret ==
    /\ pc = "reget"
    /\ calls' = [calls EXCEPT !.targetGet = @ + 1]
    /\ \E apiFails \in ApiFailures :
          IF apiFails
          THEN /\ obs' = [obs EXCEPT !.refresh = "ApiError"]
               /\ Return(EarlyResult("ApiError"))
               /\ UNCHANGED <<TargetSecret, cmp>>
          ELSE IF ~Stored(TargetSecretReq(OCIsecret)).exists
          THEN /\ obs' = [obs EXCEPT !.refresh = "NotFound"]
               /\ Return(EarlyResult("NotFound"))
               /\ UNCHANGED <<TargetSecret, cmp>>
          ELSE /\ obs' = [obs EXCEPT !.refresh = "ok"]
               /\ TargetSecret' = Reread(Stored(TargetSecretReq(OCIsecret)), TargetSecret)
               /\ cmp' = [reached  |-> TRUE,
                          stored   |-> TargetSecret'.rev,
                          current  |-> currentDigest,
                          lenData  |-> Cardinality(DOMAIN TargetSecret'.Data),
                          lenFiles |-> Len(OCIsecret.Files)]
               /\ IF NeedsUpdate(TargetSecret'.rev, currentDigest,
                                 Cardinality(DOMAIN TargetSecret'.Data),
                                 Len(OCIsecret.Files))
                  THEN pc' = "files" /\ UNCHANGED result
                  ELSE Return(RequeueResult)
    /\ UNCHANGED <<storeVars, OCIsecret, secretData, currentDigest, content,
                   tmpdir, writes, panicAt, histVars, fvars>>

\* orasclient.GetFiles, lines 117-135: the temporary directory, the file store
\* and the client; the deferred RemoveAll runs when a later step panics
GetFilesBegin ==
    /\ pc = "files"
    /\ calls' = [calls EXCEPT !.files = @ + 1]
    /\ \E step \in {"MkdirTemp", "file.New", "none"} :
          IF step # "none"
          THEN Panic(step) /\ UNCHANGED tmpdir
          ELSE IF CreateClientPanics(OCIsecret.ArtefactRegistry, secretData)
          THEN Panic("CreateClient") /\ UNCHANGED tmpdir
          ELSE /\ tmpdir' = TRUE
               /\ pc' = "copy"
               /\ UNCHANGED panicAt
    /\ UNCHANGED <<storeVars, OCIsecret, secretData, currentDigest, TargetSecret,
                   content, result, obs, writes, cmp, histVars, fvars>>

\* orasclient.GetFiles, lines 137-151: the copy, the read-back whose error is
\* dropped, and the deferred removal of the directory
GetFilesCopy ==
    /\ pc = "copy"
    /\ tmpdir' = FALSE
    /\ \E copyFails \in BOOLEAN, readFails \in BOOLEAN :
          IF copyFails
          THEN Panic("oras.Copy") /\ UNCHANGED content
          ELSE /\ content' = Filemap(remoteVer, readFails)
               /\ pc' = "update"
               /\ UNCHANGED panicAt
    /\ UNCHANGED <<storeVars, OCIsecret, secretData, currentDigest, TargetSecret,
                   result, obs, calls, writes, cmp, histVars, fvars>>

\* lines 206-229: filter, assign, update
UpdateTargetSecret ==
    /\ pc = "update"
    /\ IF TargetSecret.annNil
       THEN \* line 215 assigns into a nil map
            /\ Panic("Annotations")
            /\ UNCHANGED <<secret, bystander, TargetSecret, result, obs, calls,
                           writes>>
       ELSE /\ TargetSecret' = UpdatedSecret(TargetSecret, content, OCIsecret.Files)
            /\ calls' = [calls EXCEPT !.update = @ + 1]
            /\ UNCHANGED panicAt
            /\ \E apiFails \in ApiFailures :
                  IF apiFails \/ ~Stored(TargetSecretReq(OCIsecret)).exists
                  THEN /\ obs' = [obs EXCEPT !.update = "Error"]
                       /\ Return(EarlyResult("UpdateError"))
                       /\ UNCHANGED <<secret, bystander, writes>>
                  ELSE /\ obs' = [obs EXCEPT !.update = "ok"]
                       /\ Put(TargetSecretReq(OCIsecret), TargetSecret')
                       /\ writes' = Append(writes, TargetSecret')
                       /\ Return(RequeueResult)
    /\ UNCHANGED <<ocisecret, pullSecret, remoteVer, OCIsecret, secretData,
                   currentDigest, content, tmpdir, cmp, histVars, fvars>>

\* the locals of a pass do not outlive it
ForgetPass ==
    /\ pc' = "idle"
    /\ OCIsecret' = NoOCISecret
    /\ secretData' = ""
    /\ currentDigest' = ""
    /\ TargetSecret' = NoSecret
    /\ content' = NoContent
    /\ result' = NoResult
    /\ obs' = NoObs
    /\ calls' = NoCalls
    /\ writes' = <<>>
    /\ cmp' = NoCmp
    /\ panicAt' = "none"
    /\ disturbed' = {}
    /\ ctxDone' = FALSE

\* Reconcile has returned; the request waits for its next pass
Requeue ==
    /\ pc = "done"
    /\ ForgetPass
    /\ prevOk' = (result.err = "nil" /\ quiet /\ ~content.readErr)
    /\ UNCHANGED <<storeVars, tmpdir, fvars>>

\* the process is started again after a panic
Restart ==
    /\ pc = "panicked"
    /\ ForgetPass
    /\ prevOk' = FALSE
    /\ UNCHANGED <<storeVars, tmpdir, fvars>>

-----------------------------------------------------------------------------
(* The other users of the registry and of the cluster.  They act while the  *)
(* request waits and between the calls of a pass; "done" and "panicked" are *)
(* the instants at which a pass is over.                                    *)

Running == pc \notin {"idle", "done", "panicked"}

\* an act of another user: it disturbs the running pass, or ends the quiet
\* that followed the pass before
Disturb(what) ==
    /\ IF Running THEN disturbed' = disturbed \cup {what} /\ UNCHANGED prevOk
                  ELSE prevOk' = FALSE /\ UNCHANGED disturbed
    /\ UNCHANGED ctxDone

\* the tag is moved to another artifact version
PushArtifact ==
    /\ pc = "idle" \/ Running
    /\ \E v \in Versions \ {remoteVer} : remoteVer' = v
    /\ Disturb("registry")
    /\ UNCHANGED <<ocisecret, pullSecret, secret, bystander, passVars, fvars>>

\* the user edits Spec.Sync.Files.  A pass works on the copy it read at line
\* 84, so an edit made during a pass acts as one made right after it.
EditOCISecret ==
    /\ pc = "idle"
    /\ ocisecret.exists
    /\ \E list \in AllowLists \ {ocisecret.Files} :
          ocisecret' = [ocisecret EXCEPT !.Files = list]
    /\ Disturb("ocisecret")
    /\ UNCHANGED <<pullSecret, secret, bystander, remoteVer, passVars, fvars>>

\* the user deletes the OCISecret
DeleteOCISecret ==
    /\ pc = "idle"
    /\ ocisecret.exists
    /\ ocisecret' = NoOCISecret
    /\ Disturb("ocisecret")
    /\ UNCHANGED <<pullSecret, secret, bystander, remoteVer, passVars, fvars>>

\* somebody else writes or deletes the target Secret
ExternalWrite ==
    /\ pc = "idle" \/ Running
    /\ \E s \in (ExternalSecrets \cup {NoSecret}) \ {secret} : secret' = s
    /\ Disturb("target")
    /\ UNCHANGED <<ocisecret, pullSecret, bystander, remoteVer, passVars, fvars>>

\* the caller of Reconcile cancels ctx, or its deadline passes, while a
\* registry operation is under way or about to begin; at any other call a done
\* ctx is one more way for that call to fail
CancelContext ==
    /\ pc \in {"digest", "files", "copy"}
    /\ ~ctxDone
    /\ ctxDone' = TRUE
    /\ UNCHANGED <<storeVars, passVars, disturbed, prevOk, fvars>>

Next ==
    \/ GetOCISecret
    \/ GetPullSecret
    \/ GetDigest
    \/ GetTargetSecret
    \/ CreateTargetSecret
    \/ RefreshTargetSecret
    \/ GetFilesBegin
    \/ GetFilesCopy
    \/ UpdateTargetSecret
    \/ Requeue
    \/ Restart
    \/ PushArtifact
    \/ EditOCISecret
    \/ DeleteOCISecret
    \/ ExternalWrite
    \/ CancelContext

Spec == Init /\ [][Next]_vars

\* the steps of the controller: the calls of a pass, and the next pass of the
\* request, which is scheduled again after every return and every restart
PassNext ==
    \/ GetOCISecret
    \/ GetPullSecret
    \/ GetDigest
    \/ GetTargetSecret
    \/ CreateTargetSecret
    \/ RefreshTargetSecret
    \/ GetFilesBegin
    \/ GetFilesCopy
    \/ UpdateTargetSecret
    \/ Requeue
    \/ Restart

\* passes keep being scheduled and a pass under way goes on
LiveSpec == Spec /\ WF_vars(PassNext)

-----------------------------------------------------------------------------
(* FilterMapInPlace on its own: every map and every list, one call *)

FileMaps == UNION {[keys -> 1..2] : keys \in SUBSET FileNames}

FilterInit ==
    /\ ocisecret = NoOCISecret
    /\ pullSecret = NoPullSecret
    /\ secret = NoSecret
    /\ bystander = OtherSecret
    /\ remoteVer = 1
    /\ pc = "idle"
    /\ OCIsecret = NoOCISecret
    /\ secretData = ""
    /\ currentDigest = ""
    /\ TargetSecret = NoSecret
    /\ content = NoContent
    /\ result = NoResult
    /\ tmpdir = FALSE
    /\ obs = NoObs
    /\ calls = NoCalls
    /\ writes = <<>>
    /\ cmp = NoCmp
    /\ panicAt = "none"
    /\ disturbed = {}
    /\ prevOk = FALSE
    /\ ctxDone = FALSE
    /\ m \in FileMaps
    /\ m0 = m
    /\ allowedKeys \in SeqsUpTo(FileNames, MaxLen)
    /\ fpc = "call"

FilterCall ==
    /\ fpc = "call"
    /\ m' = FilterMapInPlace(m, allowedKeys)
    /\ fpc' = "returned"
    /\ UNCHANGED <<storeVars, passVars, histVars, m0, allowedKeys>>

FilterNext == FilterCall

FilterSpec == FilterInit /\ [][FilterNext]_vars

-----------------------------------------------------------------------------
(* Claims *)

\* the pass is over or under way, and it has begun the content fetch
SyncStarted == pc = "files" \/ calls.files > 0

\* C1, as claimed: once a pass has compared, it syncs if and only if the stored
\* digest differs from the current one, or the list is non-empty and the number
\* of keys in the target's data differs from the length of the list.
C1_TriggerAsClaimed ==
    cmp.reached =>
        (SyncStarted <=>
            \/ cmp.stored # cmp.current
            \/ (cmp.lenFiles > 0 /\ cmp.lenData # cmp.lenFiles))

\* C2, as claimed: a pass that follows a pass which returned nil, with nothing
\* changed by anybody since that pass began, fetches no content and makes no
\* create or update call.
C2_IdempotentAsClaimed ==
    (prevOk /\ quiet) =>
        (~SyncStarted /\ calls.create = 0 /\ calls.update = 0)

\* C3: a pass that finds no target Secret, in which no step fails and nobody
\* else writes the target, creates it with the placeholder revision and the
\* owner reference, compares the placeholder, and updates it in the same pass,
\* so that it ends with the digest of the fetched artifact, which is never the
\* placeholder.
C3_FirstPass ==
    (/\ pc = "done"
     /\ obs.targetGet = "NotFound"
     /\ obs.create = "ok"
     /\ result.err = "nil"
     /\ ~content.readErr
     /\ "target" \notin disturbed)
    => /\ Len(writes) = 2
       /\ writes[1].rev = RevisionPlaceholder
       /\ writes[1].owners = {OCIsecret.Name}
       /\ cmp.stored = RevisionPlaceholder
       /\ calls.files = 1
       /\ writes[2].rev = content.Digest
       /\ content.Digest \in Digests
       /\ content.Digest # RevisionPlaceholder
       /\ secret = writes[2]
       /\ secret.owners = {OCIsecret.Name}

C3_Witness ==
    /\ pc = "done"
    /\ obs.targetGet = "NotFound"
    /\ obs.create = "ok"
    /\ result.err = "nil"
    /\ ~content.readErr
    /\ "target" \notin disturbed
    /\ Len(writes) = 2
    /\ secret.rev = Digest(remoteVer)

\* C4: after a pass whose fetch and update succeeded, the target's keys are
\* the artifact's files, restricted to the list when the list is non-empty,
\* each with the artifact's bytes, and its revision is the digest of the
\* manifest that was fetched.
C4_WholesaleReplacement ==
    (pc = "done" /\ obs.update = "ok" /\ ~content.readErr)
    => LET list == OCIsecret.Files
           art  == ArtifactContent(content.ver)
           kept == IF list # <<>> THEN DOMAIN art \cap Range(list) ELSE DOMAIN art
       IN  /\ DOMAIN secret.Data = kept
           /\ \A k \in kept : secret.Data[k] = art[k]
           /\ secret.rev = Digest(content.ver)
           /\ secret = writes[Len(writes)]

\* Scenario A, over old data of two keys: the artifact holds a and b, the list is [a]
C4_Witness ==
    /\ pc = "done"
    /\ obs.update = "ok"
    /\ ~content.readErr
    /\ ArtifactFiles(content.ver) = {"a", "b"}
    /\ OCIsecret.Files = <<"a">>
    /\ obs.targetGet = "ok"
    /\ cmp.lenData = 2
    /\ DOMAIN secret.Data = {"a"}

\* C5, as claimed: when the pull secret exists without the .dockerconfigjson
\* key, the pass ends with an error, having called neither the registry nor
\* create or update.
C5_MissingKeyAsClaimed ==
    (/\ pc = "done"
     /\ obs.pullGet = "ok"
     /\ DockerConfigKey \notin DOMAIN pullSecret.Data)
    => /\ result.err # "nil"
       /\ calls.digest = 0 /\ calls.files = 0
       /\ calls.create = 0 /\ calls.update = 0

\* C6: when the pull secret is named (name and namespace) and does not exist,
\* the pass returns the lookup's error, having called neither the registry nor
\* the target Secret.
C6_MissingPullSecret ==
    (/\ pc = "done"
     /\ OCIsecret.PullName # "" /\ OCIsecret.PullNamespace # ""
     /\ ~pullSecret.exists
     /\ obs.pullGet = "NotFound")
    => /\ result.err = "NotFound"
       /\ calls.digest = 0 /\ calls.files = 0
       /\ calls.targetGet = 0 /\ calls.create = 0 /\ calls.update = 0
       /\ writes = <<>>

C6_Witness ==
    /\ pc = "done"
    /\ OCIsecret.PullName # "" /\ OCIsecret.PullNamespace # ""
    /\ ~pullSecret.exists
    /\ obs.pullGet = "NotFound"
    /\ result.err = "NotFound"

\* C7: when the OCISecret of the request does not exist, the pass returns nil
\* and has called nothing else: no pull secret, no registry, no target Secret.
C7_DeletedOCISecret ==
    (pc = "done" /\ obs.specGet = "NotFound")
    => /\ result.err = "nil"
       /\ calls = NoCalls
       /\ writes = <<>>
       /\ obs = [NoObs EXCEPT !.specGet = "NotFound"]

C7_Witness ==
    /\ pc = "done"
    /\ ~ocisecret.exists
    /\ obs.specGet = "NotFound"
    /\ result.err = "nil"

\* C8, as claimed: every pass that returns nil returns a delay of 60 seconds.
C8_CadenceAsClaimed ==
    (pc = "done" /\ result.err = "nil") => result.RequeueAfter = RequeueSeconds

\* C8, amended: a pass that returns nil returns a delay of 60 seconds when it
\* got as far as the comparison, synced or not, and no delay when it ended
\* before (OCISecret absent, .dockerconfigjson missing).
C8_Cadence ==
    (pc = "done" /\ result.err = "nil")
    => result.RequeueAfter = (IF cmp.reached THEN RequeueSeconds ELSE 0)

\* a pass that compared, found nothing to do and returned
C8_Witness ==
    /\ pc = "done"
    /\ result.err = "nil"
    /\ cmp.reached
    /\ calls.files = 0
    /\ result.RequeueAfter = RequeueSeconds

\* C9, as claimed: after FilterMapInPlace(m, allowedKeys) the keys of m are
\* those it had that are in allowedKeys when allowedKeys is non-empty and all
\* those it had when allowedKeys is empty, with their values.
C9_FilterAsClaimed ==
    fpc = "returned"
    => /\ DOMAIN m = (IF allowedKeys # <<>>
                      THEN DOMAIN m0 \cap Range(allowedKeys)
                      ELSE DOMAIN m0)
       /\ \A k \in DOMAIN m : k \in DOMAIN m0 /\ m[k] = m0[k]

\* C10, as claimed: no failure of the registry client or of a fetch leaves the
\* process panicking.
C10_NoPanicAsClaimed ==
    ~(pc = "panicked" /\ panicAt \in {"CreateClient", "GetDigest", "oras.Copy"})


\* GetFiles has returned a Filemap to Reconcile
GetFilesReturned == content # NoContent

\* C11, as claimed: what GetFiles returns holds the digest with every file of
\* the artifact; when reading the staged files failed it returns no result
\* that looks like a success.
C11_AllOrNothingAsClaimed ==
    GetFilesReturned
    => /\ ~content.readErr
       /\ content.Files = ArtifactContent(content.ver)


\* the content retrieval of this pass failed: in the transfer, or in reading
\* the staged files
RetrievalFailed ==
    \/ content.readErr
    \/ (pc = "panicked" /\ calls.files > 0
        /\ panicAt \in {"MkdirTemp", "file.New", "CreateClient", "oras.Copy"})

\* C12, as claimed: a pass whose content retrieval failed leaves the target as
\* it was, and whatever a pass writes under a real digest is the filtered file
\* set of the artifact with that digest.
C12_NoPartialAsClaimed ==
    /\ RetrievalFailed => obs.update # "ok"
    /\ \A i \in DOMAIN writes :
          writes[i].rev \in Digests
          => /\ writes[i].rev = Digest(content.ver)
             /\ writes[i].Data =
                   FilteredFiles(ArtifactContent(content.ver), OCIsecret.Files)


\* C13, as claimed: once GetFiles is left, on any path, its temporary directory
\* is gone, and a pass whose retrieval failed or was cancelled has not updated
\* the target.
C13_ReleaseAsClaimed ==
    (calls.files > 0 /\ pc # "copy")
    => /\ ~tmpdir
       /\ (RetrievalFailed \/ ctxDone) => obs.update # "ok"


\* C14: once the caller's ctx is done, a registry operation that is running or
\* starts afterwards ends with an error: the pass does not get past the digest
\* fetch or the copy, it can only stay where it is or unwind.
C14_DeadlineAsClaimed ==
    [][(ctxDone /\ pc \in {"digest", "copy"}) => pc' \in {pc, "panicked"}]_vars


\* the states of the target Secret, by its revision annotation against the
\* digest the registry serves now
TargetAbsent  == ~secret.exists
TargetStale   == secret.exists /\ secret.rev # Digest(remoteVer)
TargetCurrent == secret.exists /\ secret.rev = Digest(remoteVer)

\* C15: every step of a pass keeps the target Secret on ABSENT -> STALE <-> CURRENT:
\* a pass never deletes it; it leaves ABSENT only by creating the Secret with
\* the placeholder revision, which is STALE; an update that succeeds for the
\* version the registry still serves makes it CURRENT; and a pass does not turn
\* CURRENT into STALE unless the remote changed since the pass fetched it.
C15_StateMachine ==
    [][pc' # pc =>
         /\ secret.exists => secret'.exists
         /\ (TargetAbsent /\ ~TargetAbsent')
            => (secret'.rev = RevisionPlaceholder /\ TargetStale')
         /\ (obs.update # "ok" /\ obs'.update = "ok" /\ content.ver = remoteVer)
            => TargetCurrent'
         /\ (TargetCurrent /\ (pc = "update" => content.ver = remoteVer))
            => TargetCurrent']_vars

\* a pass that found no Secret has created it STALE and synced it to CURRENT
C15_Witness ==
    /\ pc = "done"
    /\ Len(writes) = 2
    /\ writes[1].rev = RevisionPlaceholder
    /\ obs.update = "ok"
    /\ TargetCurrent


\* C16 as claimed: when another writer wrote the Secret after this pass read it,
\* this pass's update still takes effect.
C16_LastWriterAsClaimed ==
    [][(pc = "update" /\ pc' # pc /\ TargetSecret # secret
        /\ ~TargetSecret.annNil /\ ~ctxDone)
       => obs'.update = "ok"]_vars

\* C16: when another writer wrote the Secret after this pass read it, r.Update
\* either succeeds, and then the store holds the object this pass read with this
\* pass's data and revision and nothing of the other write, or it is rejected,
\* and then the other write stays and the pass returns the error.
C16_LastWriter ==
    [][(pc = "update" /\ pc' # pc /\ TargetSecret # secret /\ ~TargetSecret.annNil)
       => \/ /\ obs'.update = "ok"
             /\ secret' = [TargetSecret EXCEPT
                              !.Data = FilteredFiles(content.Files, OCIsecret.Files),
                              !.rev = content.Digest]
             /\ result'.err = "nil"
          \/ /\ obs'.update = "Error"
             /\ secret' = secret
             /\ result'.err # "nil"]_vars

\* the pass created the Secret and read it back, another writer wrote it, and
\* the pass's update went through
C16_Witness ==
    /\ pc = "done"
    /\ obs.create = "ok"
    /\ cmp.stored = RevisionPlaceholder
    /\ "target" \in disturbed
    /\ obs.update = "ok"
    /\ secret = TargetSecret


\* C17 as claimed, second half: a pass whose create failed returns an error and
\* performs no update.
C17_CreateFailureAsClaimed ==
    (pc = "done" /\ obs.create = "Error")
    => (result.err # "nil" /\ calls.update = 0)

\* C17: the Secret that is compared and then updated is the one the second Get
\* read from the store, whatever the first read or the creation left in memory,
\* and it stays that object up to the update; and a pass whose create failed and
\* whose second Get found no Secret returns an error and performs no update.
C17_AuthoritativeReread ==
    [][/\ (pc = "reget" /\ obs'.refresh = "ok")
          => /\ TargetSecret' = secret
             /\ cmp'.stored = secret.rev
             /\ cmp'.lenData = Cardinality(DOMAIN secret.Data)
       /\ (pc \in {"files", "copy"}) => TargetSecret' = TargetSecret
       /\ (pc' = "done" /\ obs'.create = "Error" /\ obs'.refresh # "ok")
          => (result'.err # "nil" /\ calls'.update = 0)]_vars

\* the pass created the Secret, another writer replaced it, and the comparison
\* saw the other writer's revision, not the placeholder of the created object
C17_Witness ==
    /\ pc = "done"
    /\ obs.create = "ok"
    /\ cmp.reached
    /\ cmp.stored # RevisionPlaceholder
    /\ obs.update = "ok"


\* C18: a pass that finds the stored revision equal to the current digest and
\* as many keys in the data as names in a non-empty list performs no sync and
\* no update, whichever names the list holds, and returns without error; the
\* Secret is left as the pass read it.
C18_UndetectedChange ==
    (pc = "done" /\ cmp.reached /\ cmp.stored = cmp.current
     /\ cmp.lenFiles > 0 /\ cmp.lenData = cmp.lenFiles)
    => /\ ~SyncStarted
       /\ calls.update = 0
       /\ result.err = "nil"
       /\ "target" \notin disturbed => secret = TargetSecret

\* the Secret holds file "a" with artifact bytes of the version the registry
\* serves, written by an earlier sync; the list now names only "x"; the pass
\* compared, did nothing and returned without error
C18_Witness ==
    /\ pc = "done"
    /\ result.err = "nil"
    /\ cmp.reached
    /\ ~SyncStarted
    /\ OCIsecret.Files = <<"x">>
    /\ DOMAIN secret.Data = {"a"}
    /\ secret.Data["a"] = remoteVer
    /\ secret.rev = Digest(remoteVer)
    /\ ~(DOMAIN secret.Data \subseteq Range(OCIsecret.Files))


SyncedData == FilteredFiles(ArtifactContent(remoteVer), OCIsecret.Files)

\* C20 as claimed: the revision written by a full sync is the digest of the
\* retrieval that produced the written data, whatever the earlier digest fetch
\* returned; and a pass that reads the Secret with the revision and the data
\* that a sync of the version now served leaves, with nobody acting during the
\* pass, performs no sync.
C20_PairingAsClaimed ==
    /\ (obs.update = "ok" /\ ~content.readErr)
       => /\ writes[Len(writes)].rev = Digest(content.ver)
          /\ writes[Len(writes)].Data
                = FilteredFiles(ArtifactContent(content.ver), OCIsecret.Files)
    /\ (cmp.reached /\ quiet /\ calls.update = 0
        /\ TargetSecret.rev = Digest(remoteVer)
        /\ TargetSecret.Data = SyncedData)
       => ~SyncStarted


\* the pass under way and the one before it met no failure and nobody else
\* acted: the pass before returned nil, nothing was changed since it began, ctx
\* is live, and a pass that has returned got as far as the comparison
Undisturbed ==
    /\ prevOk
    /\ quiet
    /\ ~ctxDone
    /\ pc # "panicked"
    /\ pc = "done" => (cmp.reached /\ result.err = "nil" /\ ~content.readErr)

\* the revision is the digest the registry serves and the pass writes nothing
Settled == TargetCurrent /\ writes = <<>> /\ ~SyncStarted

\* C21 as claimed: if from some point on nothing fails and nobody else acts,
\* and passes keep being scheduled, then from some point on the Secret carries
\* the served digest and no pass writes it again.
C21_ConvergenceAsClaimed == (<>[]Undisturbed) => (<>[]Settled)


\* C22 as claimed: every object a pass writes to the target Secret carries the
\* owner reference to the OCISecret of the pass, and a pass does not fail on a
\* Secret that somebody else created, with or without annotations.
C22_OwnerLinkAsClaimed ==
    /\ \A i \in DOMAIN writes : writes[i].owners = {OCIsecret.Name}
    /\ ~(pc = "panicked" /\ panicAt = "Annotations")

====
